---------------------------- MODULE Spec2Model ----------------------------
(***************************************************************************)
(* Model of the travel-guide admin backend: the DatabaseStorage data      *)
(* access layer (server/storage.ts) and the request handler layer with    *)
(* its startup seeding (registerRoutes / seedDatabase).                   *)
(*                                                                         *)
(* The relational store is one record `db` holding the six tables (sets   *)
(* of rows) and the serial-id sequence of each table.  A process boots,   *)
(* seeds the store step by step (every await is one step, and the store   *)
(* may fail at any of them), registers its routes and then serves         *)
(* requests; it may be restarted, the store persisting.                   *)
(***************************************************************************)
EXTENDS Integers, Sequences, FiniteSets, TLC

(* ------------------------------ bounds -------------------------------- *)
\* Requests served (HTTP requests and direct storage calls) in a behaviour
\* whose startup is reliable, and in one where any seed insert may fail.
MaxRequests == 2
MaxSeedRequests == 1
\* Process starts in a behaviour.
MaxBoots == 2

(* ------------------------------ values -------------------------------- *)
\* JavaScript `undefined`: what destructuring `const [row] = []` yields.
Undefined == [undefined |-> TRUE]

Tables == {"users", "places", "playlists", "trips", "reviews", "photos"}

\* The strings requests put into a status field (free-form at the data layer).
UserStatuses == {"active", "disabled"}
ItemStatuses == {"pending", "approved"}

(* A value of a JSON request body: its JavaScript type and its content.   *)
(* For t = "object" and t = "array" v is the JSON text of the structure.  *)
Str(s) == [t |-> "string", v |-> s]
Num(s) == [t |-> "number", v |-> s]
Obj(s) == [t |-> "object", v |-> s]
Arr(s) == [t |-> "array", v |-> s]

\* typeof x === 'object' (true of arrays too) and Array.isArray(x).
TypeofObject(x) == x.t \in {"object", "array"}
IsArray(x) == x.t = "array"
\* JSON.stringify: a structure becomes the string holding its JSON text.
JSONstringify(x) == Str(x.v)

(* ------------------------- the relational store ----------------------- *)
EmptyDb ==
    [users |-> {}, places |-> {}, playlists |-> {}, trips |-> {},
     reviews |-> {}, photos |-> {},
     seq |-> [t \in Tables |-> 1]]

Ids(d, t) == {r.id : r \in d[t]}

\* The outcome of one storage call: the store after it, the value returned,
\* and whether the call threw.
Ok(d, v) == [db |-> d, ret |-> v, threw |-> FALSE]
Threw(d) == [db |-> d, ret |-> Undefined, threw |-> TRUE]

\* `const [x] = rows`: the first row, or undefined when there is none.
First(rows) == IF rows = {} THEN Undefined ELSE CHOOSE r \in rows : TRUE

\* The row stored for `values`: the generated id and the supplied columns.
NewRow(id, values) ==
    [f \in {"id"} \cup DOMAIN values |-> IF f = "id" THEN id ELSE values[f]]

\* db.insert(table).values(values).returning(): the id is drawn from the
\* table's serial sequence (consumed even when the insert fails); the
\* primary key rejects an id that is already stored.
Insert(d, t, values) ==
    LET id  == d.seq[t]
        d1  == [d EXCEPT !.seq[t] = id + 1]
        row == NewRow(id, values)
    IN  IF id \in Ids(d, t)
        THEN Threw(d1)
        ELSE Ok([d1 EXCEPT ![t] = @ \cup {row}], row)

\* db.select().from(table).where(eq(table.id, id))
SelectWhereId(d, t, id) == {r \in d[t] : r.id = id}

\* One row with the columns named in `set` replaced.
Merge(r, set) ==
    [f \in DOMAIN r |-> IF f \in DOMAIN set THEN set[f] ELSE r[f]]

\* db.update(table).set(set).where(eq(table.id, id)).returning(): every
\* matching row gets the columns of `set`; the primary key rejects the
\* statement when the result would hold an id twice.
Update(d, t, id, set) ==
    LET hit  == SelectWhereId(d, t, id)
        rest == d[t] \ hit
        new  == {Merge(r, set) : r \in hit}
    IN  IF \E r \in new : r.id \in {x.id : x \in rest}
        THEN Threw(d)
        ELSE Ok([d EXCEPT ![t] = rest \cup new], First(new))

\* db.delete(table).where(eq(table.id, id))
Delete(d, t, id) == Ok([d EXCEPT ![t] = {r \in @ : r.id # id}], Undefined)

(* ----------------------- DatabaseStorage methods ---------------------- *)
(* A listing is held as the set of its rows: its order (descending join   *)
(* or creation time) is read by none of the handlers, which count and     *)
(* filter it.                                                             *)
getUsers(d) == d.users
getUser(d, id) == First(SelectWhereId(d, "users", id))
\* Mutant: every user is stored as active.
createUserActive(d, user) == Insert(d, "users", [user EXCEPT !.status = "active"])
createUser(d, user) == Insert(d, "users", user)
updateUserStatus(d, id, status) == Update(d, "users", id, [status |-> status])
deleteUser(d, id) == Delete(d, "users", id)

getPlaces(d) == d.places
getPlace(d, id) == First(SelectWhereId(d, "places", id))
createPlace(d, place) == Insert(d, "places", place)
updatePlace(d, id, updates) == Update(d, "places", id, updates)
\* Mutant: deleting throws when no row matched.
deletePlaceStrict(d, id) ==
    IF SelectWhereId(d, "places", id) = {} THEN Threw(d) ELSE Delete(d, "places", id)
deletePlace(d, id) == Delete(d, "places", id)

getPlaylists(d) == d.playlists
createPlaylist(d, playlist) == Insert(d, "playlists", playlist)
updatePlaylistStatus(d, id, status) ==
    Update(d, "playlists", id, [status |-> status])

getTrips(d) == d.trips
createTrip(d, trip) == Insert(d, "trips", trip)

getReviews(d) == d.reviews
createReview(d, review) == Insert(d, "reviews", review)
\* Mutant: the update rewrites the rating as well.
updateReviewStatusAndRating(d, id, status) ==
    Update(d, "reviews", id, [status |-> status, rating |-> "0"])
updateReviewStatus(d, id, status) ==
    Update(d, "reviews", id, [status |-> status])

getPhotos(d) == d.photos
createPhoto(d, photo) == Insert(d, "photos", photo)
updatePhotoStatus(d, id, status) ==
    Update(d, "photos", id, [status |-> status])

(* ------------------------------ seed data ----------------------------- *)
\* The inserts of seedDatabase, in program order.
SeedSteps ==
    <<"user1", "user2", "user3", "user4", "place1", "place2", "place3",
      "playlist1", "playlist2", "trip1", "trip2", "trip3",
      "review1", "review2", "photo1">>

\* The const a seed insert binds its returned row to.
SeedLocals == {"user1", "user2", "user3", "user4", "place1", "place2", "place3"}

\* The table the k-th seed insert writes.
SeedTable(k) ==
    IF k <= 4 THEN "users"
    ELSE IF k <= 7 THEN "places"
    ELSE IF k <= 9 THEN "playlists"
    ELSE IF k <= 12 THEN "trips"
    ELSE IF k <= 14 THEN "reviews"
    ELSE "photos"

\* The argument of the k-th seed insert; env holds the rows bound so far.
SeedInput(k, env) ==
    CASE k = 1 -> [name |-> "Sarah Miller", email |-> "sarah@example.com",
                   role |-> "user", status |-> "active"]
      [] k = 2 -> [name |-> "John Doe", email |-> "john@example.com",
                   role |-> "user", status |-> "active"]
      [] k = 3 -> [name |-> "TravelSL", email |-> "travel@example.com",
                   role |-> "admin", status |-> "active"]
      [] k = 4 -> [name |-> "Mike Smith", email |-> "mike@example.com",
                   role |-> "user", status |-> "disabled"]
      [] k = 5 -> [name |-> "Secret Beach Cove",
                   description |-> "A hidden gem with pristine white sand and turquoise waters.",
                   location |-> "Mirissa, South Coast",
                   category |-> "Beach",
                   imageUrl |-> "https://images.unsplash.com/photo-1507525428034-b723cf961d3e",
                   rating |-> "4.8",
                   status |-> "active",
                   amenities |-> JSONstringify(Arr("[\"Parking\",\"WiFi\",\"Restrooms\"]")).v,
                   coordinates |-> JSONstringify(Obj("{\"lat\":5.9485,\"lng\":80.5353}")).v]
      [] k = 6 -> [name |-> "Hidden Waterfall Trail",
                   description |-> "A scenic hike leading to a breathtaking waterfall.",
                   location |-> "Ella, Hill Country",
                   category |-> "Nature",
                   imageUrl |-> "https://images.unsplash.com/photo-1432405972618-c60b0225b8f9",
                   rating |-> "4.9",
                   status |-> "active",
                   amenities |-> JSONstringify(Arr("[\"Guide Available\",\"Hiking\"]")).v,
                   coordinates |-> JSONstringify(Obj("{\"lat\":6.8667,\"lng\":81.0466}")).v]
      [] k = 7 -> [name |-> "Ancient Temple Ruins",
                   description |-> "Historical ruins dating back to the 5th century.",
                   location |-> "Anuradhapura",
                   category |-> "Cultural",
                   imageUrl |-> "https://images.unsplash.com/photo-1588596623667-27e163b96c9c",
                   rating |-> "4.7",
                   status |-> "active",
                   amenities |-> JSONstringify(Arr("[\"Guide Available\"]")).v,
                   coordinates |-> JSONstringify(Obj("{\"lat\":8.3114,\"lng\":80.4037}")).v]
      [] k = 8 -> [name |-> "Southern Coast Adventure",
                   description |-> "Explore the best beaches and coastal towns.",
                   creatorId |-> env.user3.id,
                   creatorName |-> env.user3.name,
                   status |-> "approved",
                   placesCount |-> 8,
                   isFeatured |-> TRUE,
                   visibility |-> "public"]
      [] k = 9 -> [name |-> "Hill Country Hikes",
                   description |-> "Best hiking trails in Ella and Nuwara Eliya.",
                   creatorId |-> env.user2.id,
                   creatorName |-> env.user2.name,
                   status |-> "pending",
                   placesCount |-> 6,
                   isFeatured |-> FALSE,
                   visibility |-> "public"]
      [] k = 10 -> [userId |-> env.user1.id, destination |-> "Sri Lanka",
                    status |-> "completed"]
      [] k = 11 -> [userId |-> env.user2.id, destination |-> "Maldives",
                    status |-> "planned"]
      [] k = 12 -> [userId |-> env.user1.id, destination |-> "Japan",
                    status |-> "completed"]
      [] k = 13 -> [userId |-> env.user1.id,
                    userName |-> env.user1.name,
                    placeId |-> env.place1.id,
                    placeName |-> env.place1.name,
                    content |-> "Absolutely stunning place! Must visit.",
                    rating |-> "5",
                    status |-> "pending"]
      [] k = 14 -> [userId |-> env.user2.id,
                    userName |-> env.user2.name,
                    placeId |-> env.place2.id,
                    placeName |-> env.place2.name,
                    content |-> "A bit hard to find, but worth the hike.",
                    rating |-> "4",
                    status |-> "approved"]
      [] OTHER  -> [uploaderId |-> env.user1.id,
                    uploaderName |-> env.user1.name,
                    url |-> "https://images.unsplash.com/photo-1506929562872-bb421503ef21",
                    caption |-> "Sunset at the beach",
                    relatedType |-> "place",
                    relatedId |-> env.place1.id,
                    status |-> "pending"]

\* The storage method the k-th seed insert calls.
SeedCall(d, k, env) ==
    CASE SeedTable(k) = "users"     -> createUser(d, SeedInput(k, env))
      [] SeedTable(k) = "places"    -> createPlace(d, SeedInput(k, env))
      [] SeedTable(k) = "playlists" -> createPlaylist(d, SeedInput(k, env))
      [] SeedTable(k) = "trips"     -> createTrip(d, SeedInput(k, env))
      [] SeedTable(k) = "reviews"   -> createReview(d, SeedInput(k, env))
      [] OTHER                      -> createPhoto(d, SeedInput(k, env))

(* --------------------------- request inputs --------------------------- *)
\* The columns a create-place body must supply, each a string.
PlaceSchema ==
    <<"name", "description", "location", "category", "imageUrl", "rating",
      "status", "amenities", "coordinates">>
\* The columns a create-playlist body must supply.
PlaylistSchema ==
    <<"name", "description", "creatorId", "creatorName", "status",
      "placesCount", "isFeatured", "visibility">>

\* The JavaScript type the schema asks of a field.
FieldType(f) ==
    IF f \in {"creatorId", "placesCount"} THEN "number"
    ELSE IF f = "isFeatured" THEN "boolean"
    ELSE "string"

\* The issue the schema raises for field f of body, "" when it raises none.
FieldIssue(body, f) ==
    IF f \notin DOMAIN body THEN "Required"
    ELSE IF body[f].t = FieldType(f) THEN ""
    ELSE IF body[f].t = "number" THEN "Expected string, received number"
    ELSE IF body[f].t = "object" THEN "Expected string, received object"
    ELSE "Invalid input"

\* schema.parse(body): the issues in schema order (a ZodError's `errors`
\* when there is one) and the typed record a valid body yields.
Parse(schema, body) ==
    LET all == [i \in 1..Len(schema) |->
                  [path |-> schema[i], message |-> FieldIssue(body, schema[i])]]
        bad(e) == e.message # ""
    IN  [errors |-> SelectSeq(all, bad),
         input  |-> [f \in {schema[i] : i \in 1..Len(schema)} |->
                       IF f \in DOMAIN body THEN body[f].v ELSE ""]]

\* Request bodies of POST places.
PlaceBase ==
    [name |-> Str("Lagoon"), description |-> Str("Quiet lagoon"),
     location |-> Str("Negombo"), category |-> Str("Nature"),
     imageUrl |-> Str("https://example.com/lagoon.jpg"), rating |-> Str("4.1"),
     status |-> Str("active"),
     amenities |-> Str("[\"Parking\"]"),
     coordinates |-> Str("{\"lat\":7.2,\"lng\":79.8}")]
PlaceBodies ==
    { PlaceBase,
      [PlaceBase EXCEPT !.amenities = Arr("[\"WiFi\"]"),
                        !.coordinates = Obj("{\"lat\":6.0,\"lng\":80.2}")],
      [PlaceBase EXCEPT !.amenities = Obj("{\"wifi\":true}")],
      [f \in DOMAIN PlaceBase \ {"rating"} |->
          IF f = "name" THEN Num("42") ELSE PlaceBase[f]],
      [f \in DOMAIN PlaceBase \ {"name"} |->
          IF f = "coordinates" THEN Num("7") ELSE PlaceBase[f]] }

\* Request bodies of POST playlists.
PlaylistBase ==
    [name |-> Str("Weekend"), description |-> Str("Two days"),
     creatorId |-> [t |-> "number", v |-> 1], creatorName |-> Str("A"),
     status |-> Str("pending"),
     placesCount |-> [t |-> "number", v |-> 2],
     isFeatured |-> [t |-> "boolean", v |-> FALSE],
     visibility |-> Str("public")]
PlaylistBodies ==
    { PlaylistBase,
      [f \in DOMAIN PlaylistBase \ {"name"} |-> PlaylistBase[f]] }

\* Arguments of the storage calls that no route reaches.
UserInputs ==
    { [name |-> "A", email |-> "a@example.com", role |-> "user", status |-> "active"],
      [name |-> "B", email |-> "b@example.com", role |-> "user", status |-> "disabled"] }
TripInputs == { [userId |-> 1, destination |-> "Kandy", status |-> "planned"] }
ReviewInputs ==
    { [userId |-> 1, userName |-> "A", placeId |-> 1, placeName |-> "Lagoon",
       content |-> "Nice", rating |-> "4", status |-> "pending"],
      [userId |-> 1, userName |-> "A", placeId |-> 1, placeName |-> "Lagoon",
       content |-> "Fine", rating |-> "3", status |-> "approved"] }
PhotoInputs ==
    { [uploaderId |-> 1, uploaderName |-> "A", url |-> "https://example.com/p.jpg",
       caption |-> "View", relatedType |-> "place", relatedId |-> 1,
       status |-> "pending"] }

\* Request bodies of PUT places/{id}: not validated, any columns.
PutBodies(d) ==
    { [name |-> "Renamed"], [status |-> "closed"] }
    \cup { [id |-> i] : i \in Ids(d, "places") \cup {d.seq["places"]} }

\* The ids a request names: every stored one and one that is not stored.
ReqIds(d, t) == Ids(d, t) \cup {d.seq[t]}

(* ------------------------------- routes ------------------------------- *)
AllRoutes ==
    { "GET dashboard/stats", "GET dashboard/activity",
      "GET places", "GET places/{id}", "POST places", "PUT places/{id}",
      "DELETE places/{id}",
      "GET playlists", "POST playlists", "PATCH playlists/{id}",
      "GET users", "PATCH users/{id}", "DELETE users/{id}",
      "GET moderation/reviews", "PATCH moderation/reviews/{id}",
      "GET moderation/photos", "PATCH moderation/photos/{id}" }

(* -------------------------------- state ------------------------------- *)
VARIABLES
    db,       \* the relational store: six tables and their id sequences
    boot,     \* the store as the running process found it when it started
    phase,    \* "boot", "seeding", "seeded", "serving" or "rejected"
    pc,       \* seed inserts completed by this process
    env,      \* the rows seedDatabase has bound to user1..place3
    outcome,  \* how seedDatabase ended: "", "seeded", "skipped", "failed"
    routes,   \* the routes registered on the app
    stats,    \* the dashboard request in flight and what it has read
    resp,     \* the last request served and its response or return value
              \* (torn: the store was written while the request was running)
    budget,   \* requests still to be served
    nboot     \* process starts so far

vars == <<db, boot, phase, pc, env, outcome, routes, stats, resp, budget, nboot>>

NoEnv == [l \in SeedLocals |-> Undefined]
NoStats ==
    [pc |-> 0, dirty |-> FALSE, allTrips |-> {}, allPlaylists |-> {},
     allPlaces |-> {}, allUsers |-> {}]
NoResp ==
    [op |-> "", id |-> 0, arg |-> "", input |-> Undefined, code |-> 0,
     ret |-> Undefined, rows |-> {}, message |-> "", threw |-> FALSE,
     torn |-> FALSE]

\* A fresh database and a process entering registerRoutes.
Start ==
    /\ db = EmptyDb
    /\ boot = EmptyDb
    /\ phase = "boot"
    /\ pc = 0
    /\ env = NoEnv
    /\ outcome = ""
    /\ routes = {}
    /\ stats = NoStats
    /\ resp = NoResp
    /\ nboot = 1

Init == Start /\ budget = MaxRequests
InitSeed == Start /\ budget = MaxSeedRequests

(* ------------------------- startup: seedDatabase ---------------------- *)
\* Mutant: the error leaves seedDatabase and registerRoutes rejects.
RethrowSeedError == "rejected"

\* Where registerRoutes stands after seedDatabase's try block threw: the
\* catch logs a warning and seedDatabase returns normally.
CatchSeedError == "seeded"

\* The await of a store call inside the try block rejects.
SeedThrows(d) ==
    /\ db' = d
    /\ phase' = CatchSeedError
    /\ outcome' = "failed"
    /\ UNCHANGED <<boot, pc, env, routes, stats, resp, budget, nboot>>

\* Mutant: the demo data is inserted whatever the user table holds.
SeedGetUsersUnguarded ==
    /\ phase = "boot"
    /\ phase' = "seeding"
    /\ UNCHANGED <<db, boot, pc, env, outcome, routes, stats, resp, budget, nboot>>

\* const users = await storage.getUsers(); if (users.length === 0) { ... }
SeedGetUsers ==
    /\ phase = "boot"
    /\ LET users == getUsers(db)
       IN  IF Cardinality(users) = 0
           THEN /\ phase' = "seeding"
                /\ outcome' = outcome
           ELSE /\ phase' = "seeded"
                /\ outcome' = "skipped"
    /\ UNCHANGED <<db, boot, pc, env, routes, stats, resp, budget, nboot>>

\* The next seed insert: it binds its row and the try block goes on, the
\* block ends after the last one, or the insert throws.
SeedInsert ==
    /\ phase = "seeding"
    /\ LET k == pc + 1
           c == SeedCall(db, k, env)
       IN  IF c.threw
           THEN SeedThrows(c.db)
           ELSE /\ db' = c.db
                /\ pc' = k
                /\ env' = IF SeedSteps[k] \in SeedLocals
                          THEN [env EXCEPT ![SeedSteps[k]] = c.ret]
                          ELSE env
                /\ phase' = IF k = Len(SeedSteps) THEN "seeded" ELSE "seeding"
                /\ outcome' = IF k = Len(SeedSteps) THEN "seeded" ELSE outcome
                /\ UNCHANGED <<boot, routes, stats, resp, budget, nboot>>

\* The store is offline when the process starts: getUsers rejects.
SeedStoreOffline ==
    /\ phase = "boot"
    /\ SeedThrows(db)

\* The store fails when the next seed insert is sent.
SeedInsertFails ==
    /\ phase = "seeding"
    /\ SeedThrows(db)

\* registerRoutes after `await seedDatabase()`: every app.get/post/... call.
RegisterRoutes ==
    /\ phase = "seeded"
    /\ routes' = AllRoutes
    /\ phase' = "serving"
    /\ UNCHANGED <<db, boot, pc, env, outcome, stats, resp, budget, nboot>>

\* The process is stopped and started again on the same store.
Restart ==
    /\ phase = "serving"
    /\ nboot < MaxBoots
    /\ nboot' = nboot + 1
    /\ boot' = db
    /\ phase' = "boot"
    /\ pc' = 0
    /\ env' = NoEnv
    /\ outcome' = ""
    /\ routes' = {}
    /\ stats' = NoStats
    /\ resp' = NoResp
    /\ UNCHANGED <<db, budget>>

(* ---------------------------- route handlers -------------------------- *)
\* What serving one request yields: the store after it and the response.
Reply(d, r) == [db |-> d, resp |-> r]
Req(op, id, arg, input) ==
    [NoResp EXCEPT !.op = op, !.id = id, !.arg = arg, !.input = input]
\* res.status(code).json(row), .json({message}), .json(rows), .end()
Json(q, code, row) == [q EXCEPT !.code = code, !.ret = row]
JsonMessage(q, code, m) == [q EXCEPT !.code = code, !.message = m]
JsonRows(q, code, rows) == [q EXCEPT !.code = code, !.rows = rows]
\* An error the handler does not catch: the generic server error path.
Unhandled(q) == [q EXCEPT !.code = 500, !.threw = TRUE]

\* Mutant: the handler answers with whatever getPlace returned.
GetPlaceUnchecked(d, id) ==
    Reply(d, Json(Req("GET places/{id}", id, "", Undefined), 200, getPlace(d, id)))

\* app.get(api.places.get.path, ...)
GetPlaceHandler(d, id) ==
    LET q     == Req("GET places/{id}", id, "", Undefined)
        place == getPlace(d, id)
    IN  IF place = Undefined
        THEN Reply(d, JsonMessage(q, 404, "Place not found"))
        ELSE Reply(d, Json(q, 200, place))

\* The body of POST places after the two conversions to stored text.
NormalizePlaceBody(body) ==
    LET b1 == IF "coordinates" \in DOMAIN body /\ TypeofObject(body.coordinates)
              THEN [body EXCEPT !.coordinates = JSONstringify(@)]
              ELSE body
    IN  IF "amenities" \in DOMAIN b1 /\ IsArray(b1.amenities)
        THEN [b1 EXCEPT !.amenities = JSONstringify(@)]
        ELSE b1

\* app.post(api.places.create.path, ...)
PostPlaceHandler(d, body) ==
    LET q == Req("POST places", 0, "", body)
        p == Parse(PlaceSchema, NormalizePlaceBody(body))
        c == createPlace(d, p.input)
    IN  IF p.errors # <<>>
        THEN Reply(d, JsonMessage(q, 400, p.errors[1].message))
        ELSE IF c.threw THEN Reply(c.db, Unhandled(q))
        ELSE Reply(c.db, Json(q, 201, c.ret))

\* app.put(api.places.update.path, ...)
PutPlaceHandler(d, id, body) ==
    LET q == Req("PUT places/{id}", id, "", body)
        u == updatePlace(d, id, body)
    IN  IF u.threw THEN Reply(u.db, Unhandled(q))
        ELSE IF u.ret = Undefined
        THEN Reply(u.db, JsonMessage(q, 404, "Place not found"))
        ELSE Reply(u.db, Json(q, 200, u.ret))

\* app.delete(api.places.delete.path, ...)
DeletePlaceHandler(d, id) ==
    LET q == Req("DELETE places/{id}", id, "", Undefined)
        x == deletePlace(d, id)
    IN  IF x.threw THEN Reply(x.db, Unhandled(q))
        ELSE Reply(x.db, [q EXCEPT !.code = 204])

\* app.post(api.playlists.create.path, ...): parse is not in a try block.
PostPlaylistHandler(d, body) ==
    LET q == Req("POST playlists", 0, "", body)
        p == Parse(PlaylistSchema, body)
        c == createPlaylist(d, p.input)
    IN  IF p.errors # <<>> THEN Reply(d, Unhandled(q))
        ELSE IF c.threw THEN Reply(c.db, Unhandled(q))
        ELSE Reply(c.db, Json(q, 201, c.ret))

\* The four status PATCH handlers: res.json(updated).
PatchReply(q, u) ==
    IF u.threw THEN Reply(u.db, Unhandled(q)) ELSE Reply(u.db, Json(q, 200, u.ret))
PatchPlaylistHandler(d, id, status) ==
    PatchReply(Req("PATCH playlists/{id}", id, status, Undefined),
               updatePlaylistStatus(d, id, status))
PatchUserHandler(d, id, status) ==
    PatchReply(Req("PATCH users/{id}", id, status, Undefined),
               updateUserStatus(d, id, status))
PatchReviewHandler(d, id, status) ==
    PatchReply(Req("PATCH moderation/reviews/{id}", id, status, Undefined),
               updateReviewStatus(d, id, status))
PatchPhotoHandler(d, id, status) ==
    PatchReply(Req("PATCH moderation/photos/{id}", id, status, Undefined),
               updatePhotoStatus(d, id, status))

\* app.delete(api.users.delete.path, ...)
DeleteUserHandler(d, id) ==
    LET q == Req("DELETE users/{id}", id, "", Undefined)
        x == deleteUser(d, id)
    IN  IF x.threw THEN Reply(x.db, Unhandled(q))
        ELSE Reply(x.db, [q EXCEPT !.code = 204])

\* Mutant: the listing without its filter.
ModerationReviewsUnfiltered(d) ==
    Reply(d, JsonRows(Req("GET moderation/reviews", 0, "", Undefined), 200, getReviews(d)))

\* app.get(api.moderation.reviews.list.path, ...)
ModerationReviewsHandler(d) ==
    LET reviews == getReviews(d)
        pending == {r \in reviews : r.status = "pending"}
    IN  Reply(d, JsonRows(Req("GET moderation/reviews", 0, "", Undefined), 200, pending))

\* app.get(api.moderation.photos.list.path, ...)
ModerationPhotosHandler(d) ==
    LET photos  == getPhotos(d)
        pending == {p \in photos : p.status = "pending"}
    IN  Reply(d, JsonRows(Req("GET moderation/photos", 0, "", Undefined), 200, pending))

\* Mutant: activeUsers counts every user.
StatsResponseAllUsers(allTrips, allPlaylists, allPlaces, allUsers, allReviews) ==
    [totalTrips     |-> Cardinality(allTrips),
     totalPlaylists |-> Cardinality(allPlaylists),
     totalPlaces    |-> Cardinality(allPlaces),
     activeUsers    |-> Cardinality(allUsers),
     pendingReviews |-> Cardinality({r \in allReviews : r.status = "pending"})]

\* The object getDashboardStats returns from its five listings.
StatsResponse(allTrips, allPlaylists, allPlaces, allUsers, allReviews) ==
    [totalTrips     |-> Cardinality(allTrips),
     totalPlaylists |-> Cardinality(allPlaylists),
     totalPlaces    |-> Cardinality(allPlaces),
     activeUsers    |-> Cardinality({u \in allUsers : u.status = "active"}),
     pendingReviews |-> Cardinality({r \in allReviews : r.status = "pending"})]

\* getDashboardStats when nothing is written between its awaits.
getDashboardStats(d) ==
    StatsResponse(getTrips(d), getPlaylists(d), getPlaces(d), getUsers(d),
                  getReviews(d))

\* A direct call of a storage method: its outcome as a return value.
Returned(op, id, input, c) ==
    Reply(c.db, [Req(op, id, "", input) EXCEPT !.ret = c.ret, !.threw = c.threw])

(* ------------------------------- requests ----------------------------- *)
\* The route is registered and the process is serving.
Serving(route) ==
    /\ phase = "serving"
    /\ route \in routes
    /\ budget > 0

\* One request takes effect; a dashboard request in flight notes a write.
Serve(h) ==
    /\ db' = h.db
    /\ resp' = h.resp
    /\ budget' = budget - 1
    /\ stats' = IF stats.pc > 0 /\ h.db # db
                THEN [stats EXCEPT !.dirty = TRUE]
                ELSE stats
    /\ UNCHANGED <<boot, phase, pc, env, outcome, routes, nboot>>

GetPlace ==
    /\ Serving("GET places/{id}")
    /\ \E id \in ReqIds(db, "places") : Serve(GetPlaceHandler(db, id))

PostPlace ==
    /\ Serving("POST places")
    /\ \E body \in PlaceBodies : Serve(PostPlaceHandler(db, body))

PutPlace ==
    /\ Serving("PUT places/{id}")
    /\ \E id \in ReqIds(db, "places") : \E body \in PutBodies(db) :
          Serve(PutPlaceHandler(db, id, body))

DeletePlace ==
    /\ Serving("DELETE places/{id}")
    /\ \E id \in ReqIds(db, "places") : Serve(DeletePlaceHandler(db, id))

PostPlaylist ==
    /\ Serving("POST playlists")
    /\ \E body \in PlaylistBodies : Serve(PostPlaylistHandler(db, body))

PatchPlaylist ==
    /\ Serving("PATCH playlists/{id}")
    /\ \E id \in ReqIds(db, "playlists") : \E status \in ItemStatuses :
          Serve(PatchPlaylistHandler(db, id, status))

PatchUser ==
    /\ Serving("PATCH users/{id}")
    /\ \E id \in ReqIds(db, "users") : \E status \in UserStatuses :
          Serve(PatchUserHandler(db, id, status))

DeleteUser ==
    /\ Serving("DELETE users/{id}")
    /\ \E id \in ReqIds(db, "users") : Serve(DeleteUserHandler(db, id))

ModerationReviews ==
    /\ Serving("GET moderation/reviews")
    /\ Serve(ModerationReviewsHandler(db))

PatchReview ==
    /\ Serving("PATCH moderation/reviews/{id}")
    /\ \E id \in ReqIds(db, "reviews") : \E status \in ItemStatuses :
          Serve(PatchReviewHandler(db, id, status))

ModerationPhotos ==
    /\ Serving("GET moderation/photos")
    /\ Serve(ModerationPhotosHandler(db))

PatchPhoto ==
    /\ Serving("PATCH moderation/photos/{id}")
    /\ \E id \in ReqIds(db, "photos") : \E status \in ItemStatuses :
          Serve(PatchPhotoHandler(db, id, status))

(* GET dashboard/stats: getDashboardStats awaits five listings in turn,   *)
(* and other requests are served between two of them.                     *)
StatsStep(n, field, rows) ==
    /\ phase = "serving"
    /\ stats.pc = n - 1
    /\ stats' = [stats EXCEPT !.pc = n, ![field] = rows]
    /\ UNCHANGED <<db, boot, phase, pc, env, outcome, routes, resp, budget, nboot>>

StatsTrips ==
    /\ Serving("GET dashboard/stats")
    /\ stats.pc = 0
    /\ stats' = [NoStats EXCEPT !.pc = 1, !.allTrips = getTrips(db)]
    /\ budget' = budget - 1
    /\ UNCHANGED <<db, boot, phase, pc, env, outcome, routes, resp, nboot>>
StatsPlaylists == StatsStep(2, "allPlaylists", getPlaylists(db))
StatsPlaces == StatsStep(3, "allPlaces", getPlaces(db))
StatsUsers == StatsStep(4, "allUsers", getUsers(db))
StatsReviews ==
    /\ phase = "serving"
    /\ stats.pc = 4
    /\ resp' = [Json(Req("GET dashboard/stats", 0, "", Undefined), 200,
                     StatsResponse(stats.allTrips, stats.allPlaylists,
                                   stats.allPlaces, stats.allUsers, getReviews(db)))
                 EXCEPT !.torn = stats.dirty]
    /\ stats' = [stats EXCEPT !.pc = 0]
    /\ UNCHANGED <<db, boot, phase, pc, env, outcome, routes, budget, nboot>>

(* Calls of the exported storage object that no route makes.              *)
Calling ==
    /\ phase = "serving"
    /\ budget > 0

CallCreateUser ==
    /\ Calling
    /\ \E user \in UserInputs :
          Serve(Returned("createUser", 0, user, createUser(db, user)))

CallGetUser ==
    /\ Calling
    /\ \E id \in ReqIds(db, "users") :
          Serve(Returned("getUser", id, Undefined, Ok(db, getUser(db, id))))

CallCreateTrip ==
    /\ Calling
    /\ \E trip \in TripInputs :
          Serve(Returned("createTrip", 0, trip, createTrip(db, trip)))

CallCreateReview ==
    /\ Calling
    /\ \E review \in ReviewInputs :
          Serve(Returned("createReview", 0, review, createReview(db, review)))

CallCreatePhoto ==
    /\ Calling
    /\ \E photo \in PhotoInputs :
          Serve(Returned("createPhoto", 0, photo, createPhoto(db, photo)))

Next ==
    \/ SeedGetUsers \/ SeedInsert \/ SeedStoreOffline \/ RegisterRoutes
    \/ GetPlace \/ PostPlace \/ PutPlace \/ DeletePlace
    \/ PostPlaylist \/ PatchPlaylist
    \/ PatchUser \/ DeleteUser
    \/ ModerationReviews \/ PatchReview \/ ModerationPhotos \/ PatchPhoto
    \/ StatsTrips \/ StatsPlaylists \/ StatsPlaces \/ StatsUsers \/ StatsReviews
    \/ CallCreateUser \/ CallGetUser \/ CallCreateTrip \/ CallCreateReview
    \/ CallCreatePhoto

\* Any seed insert may fail as well, and the process may be restarted.
NextSeed == Next \/ SeedInsertFails \/ Restart

Spec == Init /\ [][Next]_vars
SpecSeed == InitSeed /\ [][NextSeed]_vars

(* =============================== claims =============================== *)
\* The step served one whole request (not a step of the dashboard request).
Served == budget' = budget - 1 /\ stats'.pc = stats.pc

PendingOf(rows) == {r \in rows : r.status = "pending"}
ReviewsListing == ModerationReviewsHandler(db).resp.rows
PhotosListing == ModerationPhotosHandler(db).resp.rows

C2_DashboardCounts ==
    /\ (resp.op = "GET dashboard/stats" /\ ~resp.torn) =>
          /\ resp.code = 200
          /\ resp.ret.activeUsers =
                Cardinality({u \in db.users : u.status = "active"})
          /\ resp.ret.pendingReviews =
                Cardinality({r \in db.reviews : r.status = "pending"})
          /\ resp.ret.totalTrips = Cardinality(db.trips)
          /\ resp.ret.totalPlaylists = Cardinality(db.playlists)
          /\ resp.ret.totalPlaces = Cardinality(db.places)
    /\ ({[name |-> u.name, status |-> u.status] : u \in db.users}
           = {[name |-> "A", status |-> "active"],
              [name |-> "B", status |-> "disabled"]}
        /\ Cardinality(db.users) = 2) =>
          getDashboardStats(db).activeUsers = 1

\* A dashboard answer over users of both kinds, nothing written meanwhile.
C2_Witness ==
    /\ resp.op = "GET dashboard/stats"
    /\ ~resp.torn
    /\ resp.ret.activeUsers > 0
    /\ resp.ret.activeUsers < Cardinality(db.users)
    /\ resp.ret.pendingReviews > 0
    /\ resp.ret.pendingReviews < Cardinality(db.reviews)

PatchOps ==
    { "PATCH users/{id}", "PATCH playlists/{id}",
      "PATCH moderation/reviews/{id}", "PATCH moderation/photos/{id}" }
PatchTable(op) ==
    CASE op = "PATCH users/{id}" -> "users"
      [] op = "PATCH playlists/{id}" -> "playlists"
      [] op = "PATCH moderation/reviews/{id}" -> "reviews"
      [] OTHER -> "photos"
(* C3: update-status(id, s) on an existing row of users, playlists,       *)
(* reviews or photos returns that row with its status replaced by s and   *)
(* every other field as before, stores it in place of the old row, and    *)
(* changes no other row, no other table and no id sequence.               *)
C3_UpdateStatusChangesOnlyStatus ==
    [][ (Served /\ resp'.op \in PatchOps
                /\ resp'.id \in Ids(db, PatchTable(resp'.op))) =>
          LET t   == PatchTable(resp'.op)
              old == CHOOSE r \in db[t] : r.id = resp'.id
              new == [old EXCEPT !.status = resp'.arg]
          IN  /\ ~resp'.threw
              /\ resp'.code = 200
              /\ resp'.ret = new
              /\ DOMAIN resp'.ret = DOMAIN old
              /\ \A f \in DOMAIN old \ {"status"} : resp'.ret[f] = old[f]
              /\ db'[t] = (db[t] \ {old}) \cup {new}
              /\ \A u \in Tables \ {t} : db'[u] = db[u]
              /\ db'.seq = db.seq ]_vars

\* The seeded user Sarah Miller has been disabled after the seeded pending
\* review was approved.
C3_Witness ==
    /\ resp.op = "PATCH users/{id}"
    /\ resp.arg = "disabled"
    /\ resp.code = 200
    /\ resp.ret # Undefined
    /\ resp.ret.name = "Sarah Miller"
    /\ resp.ret.email = "sarah@example.com"
    /\ \E r \in db.reviews : r.status = "approved" /\ r.rating = "5"

ValidPlaceInputs ==
    { Parse(PlaceSchema, NormalizePlaceBody(b)).input :
        b \in {x \in PlaceBodies :
                 Parse(PlaceSchema, NormalizePlaceBody(x)).errors = <<>>} }
(* C4: in every reachable state, createUser(input) (createPlace(input))   *)
(* followed by getUser (getPlace) of the returned row's id yields the row *)
(* create returned, and that row equals the input in every field the      *)
(* caller supplied.                                                       *)
C4_CreateThenGet ==
    /\ \A user \in UserInputs :
          LET c == createUser(db, user)
          IN  ~c.threw =>
                /\ getUser(c.db, c.ret.id) = c.ret
                /\ \A f \in DOMAIN user : getUser(c.db, c.ret.id)[f] = user[f]
    /\ \A place \in ValidPlaceInputs :
          LET c == createPlace(db, place)
          IN  ~c.threw =>
                /\ getPlace(c.db, c.ret.id) = c.ret
                /\ \A f \in DOMAIN place : getPlace(c.db, c.ret.id)[f] = place[f]
    /\ (resp.op = "createUser" /\ ~resp.threw) =>
          /\ getUser(db, resp.ret.id) = resp.ret
          /\ \A f \in DOMAIN resp.input : resp.ret[f] = resp.input[f]
    /\ (resp.op = "POST places" /\ resp.code = 201) =>
          /\ getPlace(db, resp.ret.id) = resp.ret
          /\ resp.ret \in
                {NewRow(resp.ret.id, place) : place \in ValidPlaceInputs}

\* The disabled user B was created beside other users and is read back.
C4_Witness ==
    /\ resp.op = "createUser"
    /\ ~resp.threw
    /\ resp.input.status = "disabled"
    /\ Cardinality(db.users) > 1
    /\ getUser(db, resp.ret.id).name = "B"
    /\ getUser(db, resp.ret.id).status = "disabled"

CreateSchema(op) == IF op = "POST places" THEN PlaceSchema ELSE PlaylistSchema
Validated(op, body) ==
    Parse(CreateSchema(op),
          IF op = "POST places" THEN NormalizePlaceBody(body) ELSE body)
(* C5: on POST places and on POST playlists a body that fails the        *)
(* schema is answered 400 with the first validation error's message, and  *)
(* the store is left as it was.                                           *)
C5_InvalidCreateBodyAnswers400 ==
    [][ (Served /\ resp'.op \in {"POST places", "POST playlists"}
                /\ Validated(resp'.op, resp'.input).errors # <<>>) =>
          /\ resp'.code = 400
          /\ resp'.message = Validated(resp'.op, resp'.input).errors[1].message
          /\ db' = db ]_vars

DeleteOps == {"DELETE users/{id}", "DELETE places/{id}"}

(* C6: deleting a user or a place whose id is not stored throws nothing,  *)
(* leaves the store unchanged and the route answers 204; deleting the     *)
(* same id once more leaves the store as the first delete left it.        *)
C6_DeleteMissingIsNoOp ==
    /\ [](\A id \in 0..(db.seq["users"] + 1) :
             id \notin Ids(db, "users") => deleteUser(db, id) = Ok(db, Undefined))
    /\ [](\A id \in 0..(db.seq["places"] + 1) :
             id \notin Ids(db, "places") => deletePlace(db, id) = Ok(db, Undefined))
    /\ [][ (Served /\ resp'.op \in DeleteOps) =>
             LET t == IF resp'.op = "DELETE users/{id}" THEN "users" ELSE "places"
                 again == IF t = "users" THEN DeleteUserHandler(db', resp'.id)
                          ELSE DeletePlaceHandler(db', resp'.id)
             IN  /\ resp'.code = 204
                 /\ ~resp'.threw
                 /\ resp'.id \notin Ids(db, t) => db' = db
                 /\ again.db = db'
                 /\ again.resp = resp' ]_vars

\* DELETE places/{id} of an id that is not stored was answered 204 and the
\* three seeded places are all still there.
C6_Witness ==
    /\ resp.op = "DELETE places/{id}"
    /\ resp.code = 204
    /\ resp.id \notin Ids(db, "places")
    /\ Cardinality(db.places) = 3
    /\ db.seq["places"] = resp.id

(* C7: getUser and getPlace of an id that is not stored return undefined  *)
(* (no row, no default record, no error) and of a stored id the stored    *)
(* row; GET places/{id} answers 404 with a message when no row has the    *)
(* id and 200 with the stored row when one has; the store is unchanged.   *)
C7_GetMissingIsNotFound ==
    /\ [](\A id \in 0..(db.seq["users"] + 1) :
             IF id \in Ids(db, "users")
             THEN getUser(db, id) \in db.users /\ getUser(db, id).id = id
             ELSE getUser(db, id) = Undefined)
    /\ [](\A id \in 0..(db.seq["places"] + 1) :
             IF id \in Ids(db, "places")
             THEN getPlace(db, id) \in db.places /\ getPlace(db, id).id = id
             ELSE getPlace(db, id) = Undefined)
    /\ [](resp.op = "GET places/{id}" =>
             /\ ~resp.threw
             /\ IF resp.id \in Ids(db, "places")
                THEN /\ resp.code = 200
                     /\ resp.ret \in db.places
                     /\ resp.ret.id = resp.id
                ELSE /\ resp.code = 404
                     /\ resp.message = "Place not found"
                     /\ resp.ret = Undefined)
    /\ [](resp.op = "getUser" =>
             /\ ~resp.threw
             /\ IF resp.id \in Ids(db, "users")
                THEN resp.ret \in db.users /\ resp.ret.id = resp.id
                ELSE resp.ret = Undefined)
    /\ [][ (Served /\ resp'.op \in {"GET places/{id}", "getUser"}) => db' = db ]_vars

\* GET places/{id} of an id that is not stored, beside stored places.
C7_Witness ==
    /\ resp.op = "GET places/{id}"
    /\ resp.code = 404
    /\ resp.id \notin Ids(db, "places")
    /\ db.places # {}

(* C8: no two rows of a table have the same id, and no update request     *)
(* (PUT places/{id} with any body, the four status PATCHes) changes the   *)
(* id of a row: the ids stored in each table are the same after it.       *)
C8_IdsUniqueAndImmutable ==
    /\ [](\A t \in Tables : \A r1, r2 \in db[t] : r1.id = r2.id => r1 = r2)
    /\ [][ (Served /\ resp'.op \in PatchOps \cup {"PUT places/{id}"}) =>
             /\ \A t \in Tables : Ids(db', t) = Ids(db, t)
             /\ resp'.ret # Undefined => resp'.ret.id = resp'.id ]_vars

DemoCounts ==
    [users |-> 4, places |-> 3, playlists |-> 2, trips |-> 3, reviews |-> 2,
     photos |-> 1]
Added(t) == db[t] \ boot[t]
SeedUserIds == {env[l].id : l \in {"user1", "user2", "user3", "user4"}}
SeedPlaceIds == {env[l].id : l \in {"place1", "place2", "place3"}}

(* C9: when seedDatabase returns, it has inserted the demo data exactly   *)
(* when the user table was empty at startup and no store call failed:     *)
(* then each table holds what it held plus 4 users, 3 places, 2           *)
(* playlists, 3 trips, 2 reviews and 1 photo, and every creatorId,        *)
(* userId, uploaderId, placeId and relatedId of the new rows is the id of *)
(* a row returned by one of the seed's user or place inserts; when the    *)
(* user table was not empty, no table has changed.                        *)
C9_SeedsExactlyWhenUsersEmpty ==
    /\ (phase = "seeded" /\ outcome = "seeded") =>
          /\ boot.users = {}
          /\ \A t \in Tables :
                boot[t] \subseteq db[t] /\ Cardinality(Added(t)) = DemoCounts[t]
          /\ SeedUserIds = Ids(db, "users")
          /\ SeedPlaceIds = {p.id : p \in Added("places")}
          /\ \A p \in Added("playlists") : p.creatorId \in SeedUserIds
          /\ \A x \in Added("trips") : x.userId \in SeedUserIds
          /\ \A r \in Added("reviews") :
                r.userId \in SeedUserIds /\ r.placeId \in SeedPlaceIds
          /\ \A p \in Added("photos") :
                p.uploaderId \in SeedUserIds /\ p.relatedId \in SeedPlaceIds
    /\ (phase = "seeded" /\ boot.users = {} /\ outcome # "failed") =>
          outcome = "seeded"
    /\ (phase \in {"boot", "seeding", "seeded"} /\ boot.users # {}) =>
          /\ outcome # "seeded"
          /\ pc = 0
          /\ \A t \in Tables : db[t] = boot[t]

\* A second start found the user table emptied and seeded again: the new
\* rows refer to the users just inserted, none of which has id 1.
C9_Witness ==
    /\ phase = "seeded"
    /\ outcome = "seeded"
    /\ nboot = 2
    /\ 1 \notin Ids(db, "users")
    /\ Cardinality(db.users) = 4
    /\ \A r \in db.reviews : r.userId \in Ids(db, "users")

InsertsDone(t) == Cardinality({k \in 1..pc : SeedTable(k) = t})

(* C10: a store failure at any step of seeding is caught: registerRoutes  *)
(* goes on to register every route and never rejects; the rows inserted   *)
(* before the failing step stay stored, no seed insert follows the        *)
(* failing step, and a later start that finds users stored inserts none   *)
(* of the missing rows.                                                   *)
C10_SeedFailureIsSwallowed ==
    /\ phase # "rejected"
    /\ phase = "serving" => routes = AllRoutes
    /\ outcome = "failed" => phase \in {"seeded", "serving"}
    /\ (outcome = "failed" /\ phase = "seeded") =>
          /\ pc < Len(SeedSteps)
          /\ \A t \in Tables :
                boot[t] \subseteq db[t] /\ Cardinality(Added(t)) = InsertsDone(t)
    /\ (nboot > 1 /\ phase = "seeded" /\ boot.users # {}) =>
          \A t \in Tables : db[t] = boot[t]

\* A seeding that failed after some inserts is being served as it is by a
\* second process, which has inserted nothing.
C10_Witness ==
    /\ nboot = 2
    /\ phase = "serving"
    /\ routes = AllRoutes
    /\ outcome = "skipped"
    /\ db.users # {}
    /\ db.places # {}
    /\ db.photos = {}
    /\ \A t \in Tables : db[t] = boot[t]

=============================================================================
